---- MODULE Spec2Model ----
(***************************************************************************)
(* Model of the App component of src/App.tsx: the seven state cells, the  *)
(* interval callback registered by useEffect, the range input's onChange   *)
(* handler, the effect's cleanup, and the two warning banners the render   *)
(* derives from the state.                                                 *)
(*                                                                         *)
(* Numbers with one decimal place are held as integers in tenths:          *)
(* windSpeed 12.3 m/s is 123, blade angle 55 degrees is 550, power 1.5 kW  *)
(* is 15.  totalEnergy is held in units of 1/6000 kWh, the common          *)
(* denominator of (speed * 1.5) / 60 for speeds with one decimal.          *)
(*                                                                         *)
(* Math.random() is a deterministic generator with a hidden seed.  The     *)
(* stream of values it hands to the interval callback is modelled as a     *)
(* linear congruential generator over 0 .. RandDen-1 whose seed and        *)
(* multiplier are chosen nondeterministically in Init; a value k stands    *)
(* for the real number k / RandDen in [0, 1).                              *)
(***************************************************************************)
EXTENDS Integers, Sequences, FiniteSets

\* ------------------------------------------------------------------ bounds
\* Number of timer ticks followed per mount.
MaxTicks == 22

\* Resolution of the modelled Math.random(): results are k / RandDen.
RandDen == 512

\* Multipliers of the generator; with a power-of-two RandDen a multiplier
\* congruent to 1 modulo 4 gives a stream that visits every value.
Multipliers == {5}

\* Values the user drags the range input to, in tenths (0 .. 25 step 0.1).
SliderValues == {0, 73, 200, 201, 220, 250}

\* ------------------------------------------------------- program constants
\* History capacity: updated.length > 20 ? updated.slice(-20) : updated
HistoryCap == 20

\* windSpeed > 20, in tenths
OverloadLimit == 200

\* a > 90, in tenths of a degree
BladeLimit == 900

\* Denominator of totalEnergy: (tenths / 10 * 15 / 10) / 60 = 15 * tenths / 6000
EnergyScale == 6000

VARIABLES
  windSpeed,       \* useState(0): current wind speed, tenths of m/s
  bladeAngles,     \* useState([0, 0, 0]): tenths of a degree
  powerData,       \* useState([]): tenths of kW
  windHistory,     \* useState([]): tenths of m/s
  labels,          \* useState([]): strings
  totalEnergy,     \* useState(0): units of 1/EnergyScale kWh
  windDirection,   \* useState(0): degrees
  mounted,         \* the component is mounted
  timers,          \* number of intervals registered and not cleared
  overloadShown,   \* the last render produced the overload banner
  bladeWarning,    \* the last render produced the blade-deviation banner
  rng,             \* generator behind Math.random(): [state, mult]
  ticks,           \* interval callbacks run since the mount
  drawn,           \* speeds drawn by those callbacks, in tick order
  lastEvent,       \* the event that produced the current state
  overwrote        \* the last tick replaced a wind speed set by the slider

cells == <<windSpeed, bladeAngles, powerData, windHistory, labels,
           totalEnergy, windDirection>>

vars == <<windSpeed, bladeAngles, powerData, windHistory, labels,
          totalEnergy, windDirection, mounted, timers, overloadShown,
          bladeWarning, rng, ticks, drawn, lastEvent, overwrote>>

\* ---------------------------------------------------------- pure helpers
\* One step of the generator behind Math.random().
NextRandom(g) == [g EXCEPT !.state = (g.mult * g.state + 1) % RandDen]

\* x.toFixed(0) for x = num / den >= 0: nearest integer, the larger on a tie.
RoundHalfUp(num, den) == (2 * num + den) \div (2 * den)

\* Variant: the draw scaled to the slider's range, Math.random() * 25.
DrawSpeedSliderRange(k) == RoundHalfUp(250 * k, RandDen)

\* +(Math.random() * 15).toFixed(1) for Math.random() = k / RandDen, in tenths.
DrawSpeed(k) == RoundHalfUp(150 * k, RandDen)

\* Math.floor(Math.random() * 360) for Math.random() = k / RandDen.
DrawDirection(k) == (360 * k) \div RandDen

\* Odd tenths s for which the double s/10 * 1.5 lies above the decimal
\* midpoint, so that toFixed(1) rounds it up; for the other odd tenths the
\* double lies below the midpoint and toFixed(1) rounds it down.
ProductAboveTie ==
  {1, 5, 9, 11, 13, 15, 21, 25, 27, 31, 35, 37, 45, 47, 49, 55, 57, 59, 65,
   67, 69, 75, 77, 79, 83, 85, 89, 93, 95, 99, 103, 105, 109, 113, 115, 119,
   123, 125, 129, 133, 135, 139, 143, 145, 149}

\* Variant: the power rounded to whole kW, (speed * 1.5).toFixed(0).
PowerWholeKw(speed) == 10 * RoundHalfUp(15 * speed, 100)

\* +(speed * 1.5).toFixed(1), in tenths of kW.
Power(speed) ==
  IF speed % 2 = 0 THEN (3 * speed) \div 2
  ELSE IF speed \in ProductAboveTie THEN (3 * speed + 1) \div 2
  ELSE (3 * speed - 1) \div 2

\* Variant: the offset added to the factor, speed * (2 + 5) for the second blade.
AnglesOffsetInFactor(speed) == <<speed * 2, speed * (2 + 5), speed * 2 - 50>>

\* [speed * 2, speed * 2 + 5, speed * 2 - 5]
Angles(speed) == <<speed * 2, speed * 2 + 50, speed * 2 - 50>>

\* Variant: slice(0, 20), which keeps the oldest entries and drops the newest.
SliceFirst(updated) == SubSeq(updated, 1, HistoryCap)

\* updated.slice(-20): the last HistoryCap entries of a longer array.
SliceLast(updated) ==
  SubSeq(updated, Len(updated) - HistoryCap + 1, Len(updated))

\* setPowerData updater.
PushPower(prev, speed) ==
  LET updated == Append(prev, Power(speed))
  IN  IF Len(updated) > HistoryCap THEN SliceLast(updated) ELSE updated

\* setWindHistory updater.
PushWind(prev, speed) ==
  LET updated == Append(prev, speed)
  IN  IF Len(updated) > HistoryCap THEN SliceLast(updated) ELSE updated

\* Variant: the labels appended without the cap.
PushLabelUncapped(prev) == Append(prev, "")

\* setLabels updater.
PushLabel(prev) ==
  LET updated == Append(prev, "")
  IN  IF Len(updated) > HistoryCap THEN SliceLast(updated) ELSE updated

\* Variant: the energy step taken from the rounded power, power / 60.
EnergyStepRounded(speed) == (Power(speed) * EnergyScale) \div (10 * 60)

\* (speed * 1.5) / 60 in units of 1/EnergyScale kWh.
EnergyStep(speed) == (speed * 15 * EnergyScale) \div (100 * 60)

\* Variant: the banner from 20.0 on, windSpeed >= 20.
OverloadRiskInclusive(speed) == speed >= OverloadLimit

\* windSpeed > 20 && <overload banner>
OverloadRisk(speed) == speed > OverloadLimit

\* bladeAngles.some((a) => a > 90)
BladeDeviation(angles) == \E i \in 1..Len(angles) : angles[i] > BladeLimit

\* The render that follows a state update: the banners are derived from the
\* new state.
Render ==
  /\ overloadShown' = OverloadRisk(windSpeed')
  /\ bladeWarning' = BladeDeviation(bladeAngles')

\* ------------------------------------------------------------------ state
Init ==
  /\ windSpeed = 0
  /\ bladeAngles = <<0, 0, 0>>
  /\ powerData = <<>>
  /\ windHistory = <<>>
  /\ labels = <<>>
  /\ totalEnergy = 0
  /\ windDirection = 0
  /\ mounted = TRUE
  /\ timers = 1
  /\ overloadShown = FALSE
  /\ bladeWarning = FALSE
  /\ rng \in [state : 0..(RandDen - 1), mult : Multipliers]
  /\ ticks = 0
  /\ drawn = <<>>
  /\ lastEvent = "mount"
  /\ overwrote = FALSE

\* The interval callback, followed by the render of the new state.
Tick ==
  /\ timers > 0
  /\ ticks < MaxTicks
  /\ LET g1 == NextRandom(rng)
         g2 == NextRandom(g1)
         speed == DrawSpeed(g1.state)
         direction == DrawDirection(g2.state)
     IN  /\ rng' = g2
         /\ windSpeed' = speed
         /\ windDirection' = direction
         /\ bladeAngles' = Angles(speed)
         /\ powerData' = PushPower(powerData, speed)
         /\ windHistory' = PushWind(windHistory, speed)
         /\ labels' = PushLabel(labels)
         /\ totalEnergy' = totalEnergy + EnergyStep(speed)
         /\ drawn' = Append(drawn, speed)
  /\ ticks' = ticks + 1
  /\ lastEvent' = "tick"
  /\ overwrote' = (lastEvent = "slider")
  /\ Render
  /\ UNCHANGED <<mounted, timers>>

\* Variant: an onChange that also recomputes the blade angles.
SliderWithAngles(v) ==
  /\ mounted
  /\ windSpeed' = v
  /\ bladeAngles' = Angles(v)
  /\ lastEvent' = "slider"
  /\ overwrote' = FALSE
  /\ UNCHANGED <<powerData, windHistory, labels, totalEnergy,
                 windDirection, mounted, timers, rng, ticks, drawn>>
  /\ Render

\* onChange of the range input: setWindSpeed(Number(e.target.value)).
Slider(v) ==
  /\ mounted
  /\ windSpeed' = v
  /\ lastEvent' = "slider"
  /\ overwrote' = FALSE
  /\ UNCHANGED <<bladeAngles, powerData, windHistory, labels, totalEnergy,
                 windDirection, mounted, timers, rng, ticks, drawn>>
  /\ Render

\* Variant: an effect without cleanup, the interval is never cleared.
UnmountWithoutClear ==
  /\ mounted
  /\ mounted' = FALSE
  /\ lastEvent' = "unmount"
  /\ UNCHANGED <<windSpeed, bladeAngles, powerData, windHistory, labels,
                 totalEnergy, windDirection, overloadShown, bladeWarning,
                 rng, ticks, drawn, overwrote, timers>>

\* Teardown: the effect's cleanup, clearInterval(interval).
Unmount ==
  /\ mounted
  /\ mounted' = FALSE
  /\ timers' = timers - 1
  /\ lastEvent' = "unmount"
  /\ UNCHANGED <<windSpeed, bladeAngles, powerData, windHistory, labels,
                 totalEnergy, windDirection, overloadShown, bladeWarning,
                 rng, ticks, drawn, overwrote>>

\* A new mount: fresh state cells, first render, then the effect's setInterval.
Mount ==
  /\ ~mounted
  /\ mounted' = TRUE
  /\ windSpeed' = 0
  /\ bladeAngles' = <<0, 0, 0>>
  /\ powerData' = <<>>
  /\ windHistory' = <<>>
  /\ labels' = <<>>
  /\ totalEnergy' = 0
  /\ windDirection' = 0
  /\ timers' = timers + 1
  /\ ticks' = 0
  /\ drawn' = <<>>
  /\ lastEvent' = "mount"
  /\ overwrote' = FALSE
  /\ Render
  /\ UNCHANGED rng

Next ==
  \/ Tick
  \/ \E v \in SliderValues : Slider(v)
  \/ Unmount
  \/ Mount

Spec == Init /\ [][Next]_vars

\* ------------------------------------------------------ auxiliary operators
RECURSIVE Sum(_)
Sum(seq) == IF seq = <<>> THEN 0 ELSE seq[1] + Sum(Tail(seq))

Abs(x) == IF x < 0 THEN -x ELSE x

Min(a, b) == IF a < b THEN a ELSE b

\* ----------------------------------------------------------------- claims
\* C1: in every reachable state the three history buffers powerData,
\* windHistory and labels have the same length, and that length is at most 20.
C1_BuffersEqualLengthAtMost20 ==
  /\ Len(powerData) = Len(windHistory)
  /\ Len(windHistory) = Len(labels)
  /\ Len(labels) <= 20

\* C1 witness: a tick has run on full buffers, so an entry was evicted.
C1_Witness == ticks > 20 /\ Len(labels) = 20 /\ lastEvent = "tick"

\* C2: after n ticks the buffers hold the entries of the last min(n, 20)
\* ticks, oldest first: windHistory[i] is the speed drawn at tick
\* n - len + i, and powerData[i] is a nearest-tenth rounding of 1.5 times
\* that same speed.
C2_FifoMostRecent20 ==
  LET len == Min(ticks, 20)
  IN  /\ Len(windHistory) = len
      /\ Len(powerData) = len
      /\ \A i \in 1..len :
           /\ windHistory[i] = drawn[ticks - len + i]
           /\ Abs(2 * powerData[i] - 3 * drawn[ticks - len + i]) <= 1

\* C2 witness: two entries were evicted and the evicted speed differs from
\* the oldest one kept.
C2_Witness ==
  /\ ticks = 22
  /\ Len(windHistory) = 20
  /\ windHistory[1] = drawn[3]
  /\ drawn[1] # drawn[3]

\* C3: in every reachable state bladeAngles equals
\* [2*windSpeed, 2*windSpeed + 5, 2*windSpeed - 5].
C3_BladeAnglesFollowWindSpeed ==
  bladeAngles = <<2 * windSpeed, 2 * windSpeed + 50, 2 * windSpeed - 50>>

\* C4: the overload banner is shown iff the current windSpeed is strictly
\* greater than 20, whether a tick or the slider set it.
C4_OverloadIffAbove20 == overloadShown <=> (windSpeed > 200)

\* C4 witness: the slider was just set to 22 and the banner is shown.
C4_Witness == lastEvent = "slider" /\ windSpeed = 220 /\ overloadShown

\* C5: totalEnergy starts at 0; a tick that draws speed s adds exactly
\* (s * 1.5) / 60; a slider override or a teardown leaves it unchanged; it
\* never decreases within a mount.
C5_EnergyAccumulates ==
  /\ totalEnergy = 0
  /\ [][/\ lastEvent' = "tick" =>
             (totalEnergy' - totalEnergy) * 100 * 60 = windSpeed' * 15 * 6000
        /\ lastEvent' \in {"slider", "unmount"} => totalEnergy' = totalEnergy
        /\ lastEvent' # "mount" => totalEnergy' >= totalEnergy]_vars

\* C5 witness: energy was accumulated over ticks and an override followed.
C5_Witness == ticks >= 2 /\ totalEnergy > 0 /\ lastEvent = "slider"

\* C6: a slider override changes only windSpeed; the history buffers,
\* totalEnergy, windDirection and bladeAngles are left as they were.
C6_SliderChangesOnlyWindSpeed ==
  [][lastEvent' = "slider" =>
       UNCHANGED <<powerData, windHistory, labels, totalEnergy,
                   windDirection, bladeAngles>>]_vars

\* C6 witness: after some ticks the slider set a speed that is no entry of
\* windHistory.
C6_Witness ==
  /\ lastEvent = "slider"
  /\ windSpeed = 250
  /\ Len(windHistory) >= 1
  /\ \A i \in 1..Len(windHistory) : windHistory[i] # windSpeed

\* C7: every tick overwrites windSpeed with a one-decimal value in [0, 15]
\* and windDirection with an integer in [0, 360), whatever the slider had
\* set, so the overload banner is not shown right after a tick; the banner
\* can only come on by a slider override, and a manually set speed stays
\* until the next tick, override or remount.
C7_TickOverwritesManualSpeed ==
  [][/\ lastEvent' = "tick" =>
          /\ windSpeed' \in 0..150
          /\ windSpeed' = drawn'[Len(drawn')]
          /\ windDirection' \in 0..359
          /\ ~overloadShown'
     /\ (overloadShown' /\ ~overloadShown) => lastEvent' = "slider"
     /\ lastEvent' = "unmount" => windSpeed' = windSpeed]_vars

\* C7 witness: a tick has just replaced a speed the slider had set.
C7_Witness == lastEvent = "tick" /\ overwrote /\ windSpeed <= 150

\* C8: exactly one timer is registered while the component is mounted and
\* none after teardown, also across remounts; while the component is torn
\* down no state cell changes.
C8_OneTimerClearedOnTeardown ==
  /\ [](timers = IF mounted THEN 1 ELSE 0)
  /\ [][~mounted => (mounted' \/ UNCHANGED cells)]_vars
  /\ [][lastEvent' = "tick" => mounted]_vars

\* C8 witness: the component was torn down after ticks had run.
C8_Witness == ~mounted /\ timers = 0 /\ ticks > 0

\* C9 as stated: while no entry has been evicted, 60 * totalEnergy equals
\* the sum of the entries of powerData.
C9_EnergyIsSumOfRoundedPower ==
  ticks <= 20 => totalEnergy * 10 * 60 = Sum(powerData) * 6000

\* C9 amended: while no entry has been evicted, 60 * totalEnergy differs from
\* the sum of powerData by at most 0.05 per entry whose speed is an odd
\* number of tenths.
C9_EnergyWithinRoundingOfPower ==
  ticks <= 20 =>
    LET odd == {i \in 1..Len(windHistory) : windHistory[i] % 2 = 1}
    IN  Abs(totalEnergy * 10 * 60 - Sum(powerData) * 6000)
          <= 3000 * Cardinality(odd)

\* C9 witness: the accumulated energy and the summed power entries differ.
C9_Witness ==
  /\ ticks >= 2
  /\ ticks <= 20
  /\ totalEnergy * 10 * 60 # Sum(powerData) * 6000

\* C10: the blade-deviation banner equals 'some blade angle is above 90',
\* and it is never shown: all three blade angles stay at most 90.
C10_BladeWarningNeverShown ==
  /\ bladeWarning <=> (\E i \in 1..3 : bladeAngles[i] > 900)
  /\ ~bladeWarning
  /\ \A i \in 1..3 : bladeAngles[i] <= 900

\* C10 witness: the slider is at 25 after a tick that drew the largest
\* speed; only the overload banner is shown.
C10_Witness ==
  /\ windSpeed = 250
  /\ bladeAngles[2] = 350
  /\ overloadShown
  /\ ~bladeWarning

====
